---- MODULE Spec2Model ----
(***************************************************************************)
(* The Users / Blog Posts service of main.py: two in-memory dicts, the     *)
(* request handlers that read and write them, the pydantic schemas of      *)
(* models/user.py and models/blog_post.py, and the strict query guard.     *)
(*                                                                         *)
(* Every handler is an `async def` without an await, so a handler body is  *)
(* one step.  A request is a record; the handlers are operators from the   *)
(* store (and the inputs the runtime supplies: a fresh uuid4, the clock    *)
(* reads) to the new store and the HTTP response.                          *)
(***************************************************************************)
EXTENDS Integers, Sequences, FiniteSets, TLC

VARIABLES
    fake_db,        \* main.py:12, Dict[UUID, UserBase], in insertion order
    fake_blog_db,   \* main.py:13, Dict[UUID, BlogPostBase], in insertion order
    uuid_count,     \* number of uuid4() values drawn so far
    clock,          \* the last value datetime.now(timezone.utc) returned
    steps,          \* number of requests handled so far
    request,        \* the request handled last
    response,       \* its response
    deleted,        \* history: the ids whose DELETE succeeded
    alt_db,         \* fake_db of a second run that is sent other passwords
    alt_response,   \* the second run's response to the same request
    tasks           \* the requests received when requests overlap, in order
                    \* of arrival, each with how far its handling has got

vars == <<fake_db, fake_blog_db, uuid_count, clock, steps, request, response,
          deleted, alt_db, alt_response, tasks>>

(***************************************************************************)
(* Bounds of the exploration.                                              *)
(***************************************************************************)
MaxSteps == 3

(***************************************************************************)
(* Python and JSON values.                                                 *)
(***************************************************************************)
\* Python's None where a str is expected (Optional[str] fields).
None == "<None>"
\* An Optional object (a lookup's result): no element for None, or the object.
NoObject == <<>>
Some(o) == <<o>>
\* A JSON value of a request body: null, or a value.
Null == [isnull |-> TRUE]
Val(x) == [isnull |-> FALSE, v |-> x]
\* A JSON object with no members.
EmptyBody == [f \in {} |-> Null]
\* pydantic.SecretStr and the plain str get_secret_value() returns.
SecretStr(s) == [wrapped |-> TRUE, value |-> s]
get_secret_value(s) == s.value
PlainStr(s) == [wrapped |-> FALSE, value |-> s]

Min(a, b) == IF a < b THEN a ELSE b

(***************************************************************************)
(* A Python dict: entries in insertion order, keys unique.                 *)
(***************************************************************************)
dict_has(d, k) == \E i \in DOMAIN d : d[i].key = k
dict_index(d, k) == CHOOSE i \in DOMAIN d : d[i].key = k
\* d.get(k)
dict_get(d, k) ==
    IF dict_has(d, k) THEN Some(d[dict_index(d, k)].value) ELSE NoObject
\* d[k] = v: an existing key keeps its place, a new key goes last.
dict_set(d, k, v) ==
    IF dict_has(d, k)
    THEN [d EXCEPT ![dict_index(d, k)] = [key |-> k, value |-> v]]
    ELSE Append(d, [key |-> k, value |-> v])
\* del d[k], for a key that is present
dict_del(d, k) == SelectSeq(d, LAMBDA e : e.key # k)
\* list(d.values())
dict_values(d) == [i \in DOMAIN d |-> d[i].value]
dict_keys(d) == {d[i].key : i \in DOMAIN d}

(***************************************************************************)
(* HTTP responses.  kind says what body holds.                             *)
(***************************************************************************)
HTTP_200_OK == 200
HTTP_201_CREATED == 201
HTTP_204_NO_CONTENT == 204
HTTP_404_NOT_FOUND == 404
HTTP_422_UNPROCESSABLE_ENTITY == 422
\* what the server answers when a handler raises another exception
HTTP_500_INTERNAL_SERVER_ERROR == 500

Response(status, kind, body) == [status |-> status, kind |-> kind, body |-> body]
NoResponse == Response(0, "none", None)
\* HTTPException(404, detail=...)
NotFound(detail) == Response(HTTP_404_NOT_FOUND, "detail", detail)
\* a 422 whose detail is a list of error entries
ValidationError(errors) == Response(HTTP_422_UNPROCESSABLE_ENTITY, "errors", errors)
\* RequestValidationError for a request body: the set of pydantic's errors
BodyValidationError(errors) ==
    Response(HTTP_422_UNPROCESSABLE_ENTITY, "body_errors", errors)
\* an exception no handler catches (the KeyError of a del)
InternalServerError ==
    Response(HTTP_500_INTERNAL_SERVER_ERROR, "detail", "Internal Server Error")
ErrorEntry(type, loc, msg, input) ==
    [type |-> type, loc |-> loc, msg |-> msg, input |-> input]

(***************************************************************************)
(* models/user.py                                                          *)
(***************************************************************************)
PASSWORD_MIN_LENGTH == 8
PASSWORD_MAX_LENGTH == 128

\* validate_password_complexity, for passwords over the allowed alphabet
validate_password_complexity(p) ==
    ~(Len(p) < PASSWORD_MIN_LENGTH \/ Len(p) > PASSWORD_MAX_LENGTH)

UserCreateFields == {"email", "password", "first_name", "last_name"}
UserUpdateFields ==
    {"email", "password", "role", "is_active", "first_name", "last_name"}

\* The errors pydantic reports for a UserCreate body (extra='forbid', email
\* and password required, the password validator).
UserCreateErrors(raw) ==
    LET missing == {f \in {"email", "password"} : f \notin DOMAIN raw}
        nulls == {f \in {"email", "password"} \cap DOMAIN raw : raw[f].isnull}
        extra == DOMAIN raw \ UserCreateFields
        badpw == IF /\ "password" \in DOMAIN raw
                    /\ ~raw["password"].isnull
                    /\ ~validate_password_complexity(raw["password"].v)
                 THEN {"password"} ELSE {}
    IN  {ErrorEntry("missing", <<"body", f>>, "Field required", Null) : f \in missing}
        \cup {ErrorEntry("type_error", <<"body", f>>, "Input should be valid", Null)
                : f \in nulls}
        \cup {ErrorEntry("extra_forbidden", <<"body", f>>,
                         "Extra inputs are not permitted", raw[f]) : f \in extra}
        \cup {ErrorEntry("value_error", <<"body", f>>,
                         "Password must be between 8 and 128 characters", raw[f])
                : f \in badpw}

\* The UserCreate model of a valid body: Optional fields default to None.
UserCreate(raw) ==
    [email |-> raw["email"].v,
     password |-> SecretStr(raw["password"].v),
     first_name |-> IF "first_name" \in DOMAIN raw /\ ~raw["first_name"].isnull
                    THEN raw["first_name"].v ELSE None,
     last_name |-> IF "last_name" \in DOMAIN raw /\ ~raw["last_name"].isnull
                   THEN raw["last_name"].v ELSE None]

\* UserBase(...): id from uuid4, role and is_active from their defaults; the
\* str password is validated into a SecretStr.
UserBase(new_id, email, password, first_name, last_name) ==
    [id |-> new_id,
     email |-> email,
     password |-> SecretStr(password),
     role |-> "USER",
     is_active |-> TRUE,
     first_name |-> first_name,
     last_name |-> last_name]

\* Mutant of UserRead: the response model also declares the password.
UserRead_with_password(u) ==
    [id |-> u.id,
     email |-> u.email,
     password |-> u.password.value,
     role |-> u.role,
     is_active |-> u.is_active,
     first_name |-> u.first_name,
     last_name |-> u.last_name]

\* response_model=UserRead with from_attributes: the fields UserRead declares.
UserRead(u) ==
    [id |-> u.id,
     email |-> u.email,
     role |-> u.role,
     is_active |-> u.is_active,
     first_name |-> u.first_name,
     last_name |-> u.last_name]

\* The errors pydantic reports for a UserUpdate body (extra='forbid', every
\* field Optional, the password validator).
UserUpdateErrors(raw) ==
    LET extra == DOMAIN raw \ UserUpdateFields
        badpw == IF /\ "password" \in DOMAIN raw
                    /\ ~raw["password"].isnull
                    /\ ~validate_password_complexity(raw["password"].v)
                 THEN {"password"} ELSE {}
    IN  {ErrorEntry("extra_forbidden", <<"body", f>>,
                    "Extra inputs are not permitted", raw[f]) : f \in extra}
        \cup {ErrorEntry("value_error", <<"body", f>>,
                         "Password must be between 8 and 128 characters", raw[f])
                : f \in badpw}

\* The UserUpdate model of a valid body: every field defaults to None, and the
\* model remembers which fields the body set.
UserUpdate(raw) ==
    [fields |-> [f \in UserUpdateFields |->
                    IF f \in DOMAIN raw
                    THEN (IF f = "password" /\ ~raw[f].isnull
                          THEN Val(SecretStr(raw[f].v)) ELSE raw[f])
                    ELSE Null],
     fields_set |-> DOMAIN raw]

\* model.model_dump(exclude_unset=True)
model_dump_exclude_unset(m) == [f \in m.fields_set |-> m.fields[f]]

\* {k: v for k, v in update_data.items() if v is not None}
drop_none(update_data) ==
    [f \in {k \in DOMAIN update_data : ~update_data[k].isnull} |-> update_data[f]]

(***************************************************************************)
(* main.py: the Users handlers.  Each is an operator from the store and    *)
(* the request to [db: the new store, response: the HTTP response].        *)
(***************************************************************************)
Result(db, resp) == [db |-> db, response |-> resp]

\* get_user_from_db: the record, or None where the dependency raises the 404
get_user_from_db(db, user_id) == dict_get(db, user_id)

\* get_all_users_from_db
get_all_users_from_db(db) == dict_values(db)

\* Mutant of find_user_by_email: the scan for an existing email is left out.
find_user_by_email_never(db, email) == NoObject

\* Mutant of find_user_by_email: the scan returns the last record with the
\* email instead of the first.
find_user_by_email_last(db, email) ==
    LET hits == SelectSeq(dict_values(db), LAMBDA u : u.email = email)
    IN  IF hits = <<>> THEN NoObject ELSE Some(hits[Len(hits)])

\* next((u for u in fake_db.values() if u.email == user.email), None)
find_user_by_email(db, email) ==
    LET hits == SelectSeq(dict_values(db), LAMBDA u : u.email = email)
    IN  IF hits = <<>> THEN NoObject ELSE Some(Head(hits))

\* Mutant of create_user: an existing email's record is overwritten with the
\* payload (an upsert) instead of being returned as it is.
create_user_upsert(db, new_id, user) ==
    LET existing_user == find_user_by_email(db, user.email)
        new_user == UserBase(IF existing_user # NoObject THEN existing_user[1].id
                             ELSE new_id,
                             user.email, get_secret_value(user.password),
                             user.first_name, user.last_name)
    IN  Result(dict_set(db, new_user.id, new_user),
               Response(HTTP_201_CREATED, "user", UserRead(new_user)))

\* Mutant of create_user: the new record is stored under a key drawn apart
\* from the record's own id.
create_user_fresh_key(db, new_id, user) ==
    LET existing_user == find_user_by_email(db, user.email)
        new_user == UserBase(new_id, user.email, get_secret_value(user.password),
                             user.first_name, user.last_name)
    IN  IF existing_user # NoObject
        THEN Result(db, Response(HTTP_201_CREATED, "user", UserRead(existing_user[1])))
        ELSE Result(dict_set(db, new_id + 1, new_user),
                    Response(HTTP_201_CREATED, "user", UserRead(new_user)))

\* create_user, on a validated UserCreate; new_id is what uuid4() returns if
\* UserBase is constructed.  The route's status_code is 201 on both paths.
create_user(db, new_id, user) ==
    LET existing_user == find_user_by_email(db, user.email)
        new_user == UserBase(new_id, user.email, get_secret_value(user.password),
                             user.first_name, user.last_name)
    IN  IF existing_user # NoObject
        THEN Result(db, Response(HTTP_201_CREATED, "user", UserRead(existing_user[1])))
        ELSE Result(dict_set(db, new_user.id, new_user),
                    Response(HTTP_201_CREATED, "user", UserRead(new_user)))

\* Whether POST /users/ with this body constructs a UserBase (and so draws a
\* uuid4).
post_users_mints(db, raw) ==
    /\ UserCreateErrors(raw) = {}
    /\ find_user_by_email(db, UserCreate(raw).email) = NoObject

\* POST /users/: body validation, then create_user
post_users(db, new_id, raw) ==
    IF UserCreateErrors(raw) # {}
    THEN Result(db, BodyValidationError(UserCreateErrors(raw)))
    ELSE create_user(db, new_id, UserCreate(raw))

\* read_user
read_user(db, user_id) ==
    LET user == get_user_from_db(db, user_id)
    IN  IF user = NoObject
        THEN Result(db, NotFound("User not found"))
        ELSE Result(db, Response(HTTP_200_OK, "user", UserRead(user[1])))

\* Mutant of apply_user_update: the payload replaces the record, so an
\* Optional field the payload leaves out goes back to None.
apply_user_update_replace(user_in_db, update_data) ==
    [f \in DOMAIN user_in_db |->
        IF f \in DOMAIN update_data
        THEN (IF f = "password"
              THEN PlainStr(get_secret_value(update_data[f].v))
              ELSE update_data[f].v)
        ELSE IF f \in {"first_name", "last_name"} THEN None
        ELSE user_in_db[f]]

\* The setattr loop of update_user: a field the record has takes the payload's
\* value; a password is stored as the str its SecretStr holds.
apply_user_update(user_in_db, update_data) ==
    [f \in DOMAIN user_in_db |->
        IF f \in DOMAIN update_data
        THEN (IF f = "password"
              THEN PlainStr(get_secret_value(update_data[f].v))
              ELSE update_data[f].v)
        ELSE user_in_db[f]]

\* The body of update_user, on a validated UserUpdate and the object the
\* dependency returned: the object is changed in place and stored under
\* user_id, whether or not the key is still there.
update_user_handler(db, user_id, user_update, user_in_db) ==
    LET update_data == drop_none(model_dump_exclude_unset(user_update))
        updated == apply_user_update(user_in_db, update_data)
    IN  Result(dict_set(db, user_id, updated),
               Response(HTTP_200_OK, "user", UserRead(updated)))

\* update_user behind its dependency, with no other request in between
update_user(db, user_id, user_update) ==
    LET user_in_db == get_user_from_db(db, user_id)
    IN  IF user_in_db = NoObject
        THEN Result(db, NotFound("User not found"))
        ELSE update_user_handler(db, user_id, user_update, user_in_db[1])

\* PATCH /users/{user_id}: the get_user_from_db dependency is solved before
\* the body is validated, so an absent id is a 404 whatever the body holds.
patch_user(db, user_id, raw) ==
    IF get_user_from_db(db, user_id) = NoObject
    THEN Result(db, NotFound("User not found"))
    ELSE IF UserUpdateErrors(raw) # {}
    THEN Result(db, BodyValidationError(UserUpdateErrors(raw)))
    ELSE update_user(db, user_id, UserUpdate(raw))

\* Mutant of delete_user: answers 204 and keeps the record.
delete_user_soft(db, user_id) ==
    IF get_user_from_db(db, user_id) = NoObject
    THEN Result(db, NotFound("User not found"))
    ELSE Result(db, Response(HTTP_204_NO_CONTENT, "empty", None))

\* The body of delete_user: del fake_db[user_id] raises KeyError when the key
\* is not there.
delete_user_handler(db, user_id) ==
    IF dict_has(db, user_id)
    THEN Result(dict_del(db, user_id), Response(HTTP_204_NO_CONTENT, "empty", None))
    ELSE Result(db, InternalServerError)

\* delete_user behind its dependency, with no other request in between
delete_user(db, user_id) ==
    IF get_user_from_db(db, user_id) = NoObject
    THEN Result(db, NotFound("User not found"))
    ELSE delete_user_handler(db, user_id)

(***************************************************************************)
(* Query strings and the listing endpoints.  A query string is a sequence  *)
(* of [name, value] pairs; a value is the text of an integer or other text.*)
(***************************************************************************)
Num(n) == [isint |-> TRUE, n |-> n, text |-> ""]
Text(t) == [isint |-> FALSE, n |-> 0, text |-> t]
Param(name, value) == [name |-> name, value |-> value]

\* request.query_params.keys(): each name once, in order of first occurrence
query_keys(q) ==
    LET firsts == SelectSeq([i \in DOMAIN q |-> [i |-> i, name |-> q[i].name]],
                            LAMBDA e : \A j \in 1..(e.i - 1) : q[j].name # e.name)
    IN  [i \in DOMAIN firsts |-> firsts[i].name]

\* request.query_params[name]: the last value submitted under the name
query_getitem(q, name) ==
    LET hits == SelectSeq(q, LAMBDA e : e.name = name)
    IN  hits[Len(hits)].value

\* strict_query_params(allowed): the 422 it raises, or None when it returns
strict_query_params(allowed, q) ==
    LET unknown == SelectSeq(query_keys(q), LAMBDA k : k \notin allowed)
    IN  IF unknown # <<>>
        THEN Some(ValidationError(
                [i \in DOMAIN unknown |->
                    ErrorEntry("value_error", <<"query", unknown[i]>>,
                               "Unknown query parameter",
                               query_getitem(q, unknown[i]))]))
        ELSE NoObject

SKIP_DEFAULT == 0
SKIP_GE == 0
LIMIT_DEFAULT == 100
LIMIT_GE == 1
\* Mutant of LIMIT_LE: the le=1000 of UserQueryParams, which no endpoint uses.
LIMIT_LE_1000 == 1000
LIMIT_LE == 100

\* Annotated[int, Query(ge=0)] = 0
skip_errors(q) ==
    IF ~(\E i \in DOMAIN q : q[i].name = "skip") THEN <<>>
    ELSE LET raw == query_getitem(q, "skip")
         IN  IF ~raw.isint
             THEN <<ErrorEntry("int_parsing", <<"query", "skip">>,
                               "Input should be a valid integer", raw)>>
             ELSE IF ~(raw.n >= SKIP_GE)
             THEN <<ErrorEntry("greater_than_equal", <<"query", "skip">>,
                               "Input should be greater than or equal to 0", raw)>>
             ELSE <<>>

\* Annotated[int, Query(ge=1, le=100)] = 100
limit_errors(q) ==
    IF ~(\E i \in DOMAIN q : q[i].name = "limit") THEN <<>>
    ELSE LET raw == query_getitem(q, "limit")
         IN  IF ~raw.isint
             THEN <<ErrorEntry("int_parsing", <<"query", "limit">>,
                               "Input should be a valid integer", raw)>>
             ELSE IF ~(raw.n >= LIMIT_GE)
             THEN <<ErrorEntry("greater_than_equal", <<"query", "limit">>,
                               "Input should be greater than or equal to 1", raw)>>
             ELSE IF ~(raw.n <= LIMIT_LE)
             THEN <<ErrorEntry("less_than_equal", <<"query", "limit">>,
                               "Input should be less than or equal to 100", raw)>>
             ELSE <<>>

query_skip(q) ==
    IF \E i \in DOMAIN q : q[i].name = "skip"
    THEN query_getitem(q, "skip").n ELSE SKIP_DEFAULT
query_limit(q) ==
    IF \E i \in DOMAIN q : q[i].name = "limit"
    THEN query_getitem(q, "limit").n ELSE LIMIT_DEFAULT

\* Mutant of slice: data[skip : limit], the upper end without the skip.
slice_to_limit(data, skip, limit) == SubSeq(data, skip + 1, Min(limit, Len(data)))

\* data[skip : skip + limit], for skip >= 0 and limit >= 1
slice(data, skip, limit) == SubSeq(data, skip + 1, Min(skip + limit, Len(data)))

\* Mutant of read_users: skip and limit are validated before the guard runs.
read_users_validation_first(db, q) ==
    LET guard == strict_query_params({"skip", "limit"}, q)
        errors == skip_errors(q) \o limit_errors(q)
        users_data == get_all_users_from_db(db)
        page == slice(users_data, query_skip(q), query_limit(q))
    IN  IF errors # <<>> THEN Result(db, ValidationError(errors))
        ELSE IF guard # NoObject THEN Result(db, guard[1])
        ELSE Result(db, Response(HTTP_200_OK, "users",
                                 [i \in DOMAIN page |-> UserRead(page[i])]))

\* read_users behind its dependencies: the strict guard first, then the
\* validation of skip and limit, then the slice
read_users(db, q) ==
    LET guard == strict_query_params({"skip", "limit"}, q)
        errors == skip_errors(q) \o limit_errors(q)
        users_data == get_all_users_from_db(db)
        page == slice(users_data, query_skip(q), query_limit(q))
    IN  IF guard # NoObject THEN Result(db, guard[1])
        ELSE IF errors # <<>> THEN Result(db, ValidationError(errors))
        ELSE Result(db, Response(HTTP_200_OK, "users",
                                 [i \in DOMAIN page |-> UserRead(page[i])]))

(***************************************************************************)
(* models/blog_post.py                                                     *)
(***************************************************************************)
BlogPostCreateFields ==
    {"title", "slug", "excerpt", "content", "is_published", "author_id"}
BlogPostCreateRequired == {"title", "slug", "content", "author_id"}
BlogPostUpdateFields ==
    {"title", "slug", "excerpt", "content", "is_published", "author_id"}

\* The errors pydantic reports for a BlogPostCreate body (extra="forbid", the
\* required fields, is_published a strict bool that is not Optional).
BlogPostCreateErrors(raw) ==
    LET missing == {f \in BlogPostCreateRequired : f \notin DOMAIN raw}
        nulls == {f \in (BlogPostCreateRequired \cup {"is_published"}) \cap DOMAIN raw :
                    raw[f].isnull}
        extra == DOMAIN raw \ BlogPostCreateFields
    IN  {ErrorEntry("missing", <<"body", f>>, "Field required", Null) : f \in missing}
        \cup {ErrorEntry("type_error", <<"body", f>>, "Input should be valid", Null)
                : f \in nulls}
        \cup {ErrorEntry("extra_forbidden", <<"body", f>>,
                         "Extra inputs are not permitted", raw[f]) : f \in extra}

\* The BlogPostCreate model of a valid body: excerpt defaults to None and
\* is_published to False.
BlogPostCreate(raw) ==
    [title |-> raw["title"].v,
     slug |-> raw["slug"].v,
     excerpt |-> IF "excerpt" \in DOMAIN raw /\ ~raw["excerpt"].isnull
                 THEN raw["excerpt"].v ELSE None,
     content |-> raw["content"].v,
     is_published |-> IF "is_published" \in DOMAIN raw
                      THEN raw["is_published"].v ELSE FALSE,
     author_id |-> raw["author_id"].v]

\* BlogPostBase(...): id from uuid4; created_at and updated_at each from its
\* own default_factory call of utc_now, in field order.
BlogPostBase(new_id, title, slug, excerpt, content, is_published, author_id, now_created, now_updated) ==
    [id |-> new_id,
     title |-> title,
     slug |-> slug,
     excerpt |-> excerpt,
     content |-> content,
     is_published |-> is_published,
     author_id |-> author_id,
     created_at |-> now_created,
     updated_at |-> now_updated]

\* response_model=BlogPostRead with from_attributes
BlogPostRead(p) ==
    [id |-> p.id,
     title |-> p.title,
     slug |-> p.slug,
     excerpt |-> p.excerpt,
     content |-> p.content,
     is_published |-> p.is_published,
     author_id |-> p.author_id,
     created_at |-> p.created_at,
     updated_at |-> p.updated_at]

\* The errors pydantic reports for a BlogPostUpdate body (extra="forbid",
\* every field Optional).
BlogPostUpdateErrors(raw) ==
    LET extra == DOMAIN raw \ BlogPostUpdateFields
    IN  {ErrorEntry("extra_forbidden", <<"body", f>>,
                    "Extra inputs are not permitted", raw[f]) : f \in extra}

\* The BlogPostUpdate model of a valid body
BlogPostUpdate(raw) ==
    [fields |-> [f \in BlogPostUpdateFields |->
                    IF f \in DOMAIN raw THEN raw[f] ELSE Null],
     fields_set |-> DOMAIN raw]

(***************************************************************************)
(* main.py: the Blog Post handlers.  A handler that reads the clock is     *)
(* given the values its reads return.                                      *)
(***************************************************************************)
\* get_blog_post_from_db
get_blog_post_from_db(db, post_id) == dict_get(db, post_id)

\* get_all_blog_posts_from_db
get_all_blog_posts_from_db(db) == dict_values(db)

\* Mutant of find_post_by_slug: the scan for an existing slug is left out.
find_post_by_slug_never(db, slug) == NoObject

\* next((p for p in fake_blog_db.values() if p.slug == post.slug), None)
find_post_by_slug(db, slug) ==
    LET hits == SelectSeq(dict_values(db), LAMBDA p : p.slug = slug)
    IN  IF hits = <<>> THEN NoObject ELSE Some(Head(hits))

\* create_blog_post, on a validated BlogPostCreate.  The route's status_code
\* is 201 on both paths.
create_blog_post(db, new_id, now_created, now_updated, post) ==
    LET existing == find_post_by_slug(db, post.slug)
        new_post == BlogPostBase(new_id, post.title, post.slug, post.excerpt,
                                 post.content, post.is_published, post.author_id,
                                 now_created, now_updated)
    IN  IF existing # NoObject
        THEN Result(db, Response(HTTP_201_CREATED, "post", BlogPostRead(existing[1])))
        ELSE Result(dict_set(db, new_post.id, new_post),
                    Response(HTTP_201_CREATED, "post", BlogPostRead(new_post)))

\* Whether POST /posts/ with this body constructs a BlogPostBase (and so draws
\* a uuid4 and reads the clock twice).
post_posts_mints(db, raw) ==
    /\ BlogPostCreateErrors(raw) = {}
    /\ find_post_by_slug(db, BlogPostCreate(raw).slug) = NoObject

\* POST /posts/
post_posts(db, new_id, now_created, now_updated, raw) ==
    IF BlogPostCreateErrors(raw) # {}
    THEN Result(db, BodyValidationError(BlogPostCreateErrors(raw)))
    ELSE create_blog_post(db, new_id, now_created, now_updated, BlogPostCreate(raw))

\* read_blog_posts behind its dependencies
read_blog_posts(db, q) ==
    LET guard == strict_query_params({"skip", "limit"}, q)
        errors == skip_errors(q) \o limit_errors(q)
        posts_data == get_all_blog_posts_from_db(db)
        page == slice(posts_data, query_skip(q), query_limit(q))
    IN  IF guard # NoObject THEN Result(db, guard[1])
        ELSE IF errors # <<>> THEN Result(db, ValidationError(errors))
        ELSE Result(db, Response(HTTP_200_OK, "posts",
                                 [i \in DOMAIN page |-> BlogPostRead(page[i])]))

\* read_blog_post
read_blog_post(db, post_id) ==
    LET post == get_blog_post_from_db(db, post_id)
    IN  IF post = NoObject
        THEN Result(db, NotFound("Blog post not found"))
        ELSE Result(db, Response(HTTP_200_OK, "post", BlogPostRead(post[1])))

\* Mutant of with_updated_at: the timestamp is refreshed on every update.
with_updated_at_always(update_data, now) ==
    [f \in DOMAIN update_data \cup {"updated_at"} |->
        IF f = "updated_at" THEN Val(now) ELSE update_data[f]]

\* update_data after `if update_data: update_data['updated_at'] = now`
with_updated_at(update_data, now) ==
    IF DOMAIN update_data # {}
    THEN [f \in DOMAIN update_data \cup {"updated_at"} |->
            IF f = "updated_at" THEN Val(now) ELSE update_data[f]]
    ELSE update_data

\* The setattr loop of update_blog_post
apply_post_update(post_in_db, update_data) ==
    [f \in DOMAIN post_in_db |->
        IF f \in DOMAIN update_data THEN update_data[f].v ELSE post_in_db[f]]

\* The body of update_blog_post, on a validated BlogPostUpdate and the object
\* the dependency returned; now is what the clock returns if it is read.
update_blog_post_handler(db, post_id, now, post_update, post_in_db) ==
    LET update_data == with_updated_at(
                          drop_none(model_dump_exclude_unset(post_update)), now)
        updated == apply_post_update(post_in_db, update_data)
    IN  Result(dict_set(db, post_id, updated),
               Response(HTTP_200_OK, "post", BlogPostRead(updated)))

\* update_blog_post behind its dependency, with no other request in between
update_blog_post(db, post_id, now, post_update) ==
    LET post_in_db == get_blog_post_from_db(db, post_id)
    IN  IF post_in_db = NoObject
        THEN Result(db, NotFound("Blog post not found"))
        ELSE update_blog_post_handler(db, post_id, now, post_update, post_in_db[1])

\* Whether PATCH /posts/{post_id} with this body reads the clock.
patch_post_reads_clock(db, post_id, raw) ==
    /\ get_blog_post_from_db(db, post_id) # NoObject
    /\ BlogPostUpdateErrors(raw) = {}
    /\ DOMAIN drop_none(model_dump_exclude_unset(BlogPostUpdate(raw))) # {}

\* PATCH /posts/{post_id}
patch_post(db, post_id, now, raw) ==
    IF get_blog_post_from_db(db, post_id) = NoObject
    THEN Result(db, NotFound("Blog post not found"))
    ELSE IF BlogPostUpdateErrors(raw) # {}
    THEN Result(db, BodyValidationError(BlogPostUpdateErrors(raw)))
    ELSE update_blog_post(db, post_id, now, BlogPostUpdate(raw))

\* The body of delete_blog_post: del fake_blog_db[post_id] raises KeyError
\* when the key is not there.
delete_blog_post_handler(db, post_id) ==
    IF dict_has(db, post_id)
    THEN Result(dict_del(db, post_id), Response(HTTP_204_NO_CONTENT, "empty", None))
    ELSE Result(db, InternalServerError)

\* delete_blog_post behind its dependency, with no other request in between
delete_blog_post(db, post_id) ==
    IF get_blog_post_from_db(db, post_id) = NoObject
    THEN Result(db, NotFound("Blog post not found"))
    ELSE delete_blog_post_handler(db, post_id)

(***************************************************************************)
(* The requests the clients send.                                          *)
(***************************************************************************)
Emails == {"a@x.io", "b@x.io"}
Passwords == {"Passw0rd", "S3cret!!"}
\* The steps by which the clock may have moved on at a read.
Ticks == {0, 1}
\* A UUID the service never minted.
UnknownId == 0
\* uuid4(), as the default_factory of an id: a value never drawn before.
uuid4(count) == count + 1

Request(method, path, id, body, query) ==
    [method |-> method, path |-> path, id |-> id, body |-> body, query |-> query]
NoRequest == Request("", "", UnknownId, EmptyBody, <<>>)

UserCreateBodies ==
    {[email |-> Val(e), password |-> Val("Passw0rd")] : e \in Emails}
    \cup {[email |-> Val("a@x.io"), password |-> Val("S3cret!!"),
           first_name |-> Val("Ann"), last_name |-> Null],
          [email |-> Val("a@x.io"), password |-> Val("short")]}

UserUpdateBodies ==
    {EmptyBody,
     [first_name |-> Val("Bea")],
     [first_name |-> Null, is_active |-> Null],
     [email |-> Val("b@x.io")],
     [password |-> Val("S3cret!!"), role |-> Null],
     [role |-> Val("ADMIN"), is_active |-> Val(FALSE), last_name |-> Val("Lee"),
      first_name |-> Null],
     [id |-> Val("00000000-0000-0000-0000-000000000007")]}

BlogPostCreateBodies ==
    {[title |-> Val("Hi"), slug |-> Val("hi-there"), content |-> Val("0123456789"),
      author_id |-> Val(UnknownId)],
     [title |-> Val("Yo"), slug |-> Val("hi-there"), content |-> Val("9876543210"),
      author_id |-> Val(1), is_published |-> Val(TRUE), excerpt |-> Val("Teaser")],
     [title |-> Val("Hi"), slug |-> Val("bye-now"), content |-> Val("0123456789"),
      author_id |-> Val(UnknownId), is_published |-> Val(TRUE), excerpt |-> Null],
     [title |-> Val("Hi"), slug |-> Val("hi-there"), content |-> Val("0123456789"),
      author_id |-> Val(UnknownId), is_published |-> Null]}

BlogPostUpdateBodies ==
    {EmptyBody,
     [is_published |-> Val(TRUE)],
     [excerpt |-> Null],
     [slug |-> Val("bye-now"), title |-> Null],
     [title |-> Val("Yo"), content |-> Val("9876543210"), author_id |-> Val(1),
      excerpt |-> Val("Blurb"), is_published |-> Val(FALSE)],
     [created_at |-> Val(0)]}

ListQueries ==
    {<<>>,
     <<Param("skip", Num(1)), Param("limit", Num(1))>>,
     <<Param("limit", Num(1))>>,
     <<Param("limit", Num(100))>>,
     <<Param("skip", Num(0)), Param("limit", Num(101))>>,
     <<Param("limit", Num(0)), Param("skip", Num(-1))>>,
     <<Param("limit", Text("ten"))>>,
     <<Param("limit", Num(0)), Param("limit", Num(1))>>,
     <<Param("foo", Text("bar")), Param("limit", Num(101))>>,
     <<Param("skip", Num(1)), Param("foo", Text("bar")), Param("bar", Num(1)),
       Param("foo", Text("baz"))>>}

(***************************************************************************)
(* The state machine: one action per endpoint.                             *)
(***************************************************************************)
Init ==
    /\ fake_db = <<>>
    /\ fake_blog_db = <<>>
    /\ uuid_count = 0
    /\ clock = 0
    /\ steps = 0
    /\ request = NoRequest
    /\ response = NoResponse
    /\ deleted = {}
    /\ alt_db = <<>>
    /\ alt_response = NoResponse
    /\ tasks = <<>>

\* One more request is handled.
Handled == steps < MaxSteps /\ steps' = steps + 1
\* The second run is not followed, and requests do not overlap.
OneRun == UNCHANGED <<alt_db, alt_response, tasks>>
\* The history of deletions after a request to DELETE id with response resp.
Deleted(id, resp) ==
    IF resp.status = HTTP_204_NO_CONTENT THEN deleted \cup {id} ELSE deleted
\* The ids a client may name: the unknown one and every id minted so far.
TargetIds == UnknownId..uuid_count

CreateUser ==
    /\ Handled
    /\ \E raw \in UserCreateBodies :
        LET r == post_users(fake_db, uuid4(uuid_count), raw)
        IN  /\ fake_db' = r.db
            /\ response' = r.response
            /\ uuid_count' = IF post_users_mints(fake_db, raw)
                             THEN uuid4(uuid_count) ELSE uuid_count
            /\ request' = Request("POST", "/users/", UnknownId, raw, <<>>)
    /\ UNCHANGED <<fake_blog_db, clock>>
    /\ UNCHANGED deleted
    /\ OneRun

ReadUsers ==
    /\ Handled
    /\ \E q \in ListQueries :
        /\ response' = read_users(fake_db, q).response
        /\ request' = Request("GET", "/users/", UnknownId, EmptyBody, q)
    /\ UNCHANGED <<fake_db, fake_blog_db, uuid_count, clock>>
    /\ UNCHANGED deleted
    /\ OneRun

ReadUser ==
    /\ Handled
    /\ \E user_id \in TargetIds :
        /\ response' = read_user(fake_db, user_id).response
        /\ request' = Request("GET", "/users/{user_id}", user_id, EmptyBody, <<>>)
    /\ UNCHANGED <<fake_db, fake_blog_db, uuid_count, clock>>
    /\ UNCHANGED deleted
    /\ OneRun

UpdateUser ==
    /\ Handled
    /\ \E user_id \in TargetIds, raw \in UserUpdateBodies :
        LET r == patch_user(fake_db, user_id, raw)
        IN  /\ fake_db' = r.db
            /\ response' = r.response
            /\ request' = Request("PATCH", "/users/{user_id}", user_id, raw, <<>>)
    /\ UNCHANGED <<fake_blog_db, uuid_count, clock>>
    /\ UNCHANGED deleted
    /\ OneRun

DeleteUser ==
    /\ Handled
    /\ \E user_id \in TargetIds :
        LET r == delete_user(fake_db, user_id)
        IN  /\ fake_db' = r.db
            /\ response' = r.response
            /\ deleted' = Deleted(user_id, r.response)
            /\ request' = Request("DELETE", "/users/{user_id}", user_id, EmptyBody, <<>>)
    /\ UNCHANGED <<fake_blog_db, uuid_count, clock>>
    /\ OneRun

CreateBlogPost ==
    /\ Handled
    /\ \E raw \in BlogPostCreateBodies, d1 \in Ticks, d2 \in Ticks :
        LET mints == post_posts_mints(fake_blog_db, raw)
            now_created == clock + d1
            now_updated == now_created + d2
            r == post_posts(fake_blog_db, uuid4(uuid_count), now_created, now_updated, raw)
        IN  /\ mints \/ (d1 = 0 /\ d2 = 0)
            /\ fake_blog_db' = r.db
            /\ response' = r.response
            /\ uuid_count' = IF mints THEN uuid4(uuid_count) ELSE uuid_count
            /\ clock' = IF mints THEN now_updated ELSE clock
            /\ request' = Request("POST", "/posts/", UnknownId, raw, <<>>)
    /\ UNCHANGED fake_db
    /\ UNCHANGED deleted
    /\ OneRun

ReadBlogPosts ==
    /\ Handled
    /\ \E q \in ListQueries :
        /\ response' = read_blog_posts(fake_blog_db, q).response
        /\ request' = Request("GET", "/posts/", UnknownId, EmptyBody, q)
    /\ UNCHANGED <<fake_db, fake_blog_db, uuid_count, clock>>
    /\ UNCHANGED deleted
    /\ OneRun

ReadBlogPost ==
    /\ Handled
    /\ \E post_id \in TargetIds :
        /\ response' = read_blog_post(fake_blog_db, post_id).response
        /\ request' = Request("GET", "/posts/{post_id}", post_id, EmptyBody, <<>>)
    /\ UNCHANGED <<fake_db, fake_blog_db, uuid_count, clock>>
    /\ UNCHANGED deleted
    /\ OneRun

UpdateBlogPost ==
    /\ Handled
    /\ \E post_id \in TargetIds, raw \in BlogPostUpdateBodies, d \in Ticks :
        LET reads == patch_post_reads_clock(fake_blog_db, post_id, raw)
            now == clock + d
            r == patch_post(fake_blog_db, post_id, now, raw)
        IN  /\ reads \/ d = 0
            /\ fake_blog_db' = r.db
            /\ response' = r.response
            /\ clock' = IF reads THEN now ELSE clock
            /\ request' = Request("PATCH", "/posts/{post_id}", post_id, raw, <<>>)
    /\ UNCHANGED <<fake_db, uuid_count>>
    /\ UNCHANGED deleted
    /\ OneRun

DeleteBlogPost ==
    /\ Handled
    /\ \E post_id \in TargetIds :
        LET r == delete_blog_post(fake_blog_db, post_id)
        IN  /\ fake_blog_db' = r.db
            /\ response' = r.response
            /\ deleted' = Deleted(post_id, r.response)
            /\ request' = Request("DELETE", "/posts/{post_id}", post_id, EmptyBody, <<>>)
    /\ UNCHANGED <<fake_db, uuid_count, clock>>
    /\ OneRun

Next ==
    \/ CreateUser
    \/ ReadUsers
    \/ ReadUser
    \/ UpdateUser
    \/ DeleteUser
    \/ CreateBlogPost
    \/ ReadBlogPosts
    \/ ReadBlogPost
    \/ UpdateBlogPost
    \/ DeleteBlogPost

Spec == Init /\ [][Next]_vars

(***************************************************************************)
(* The same service when no update changes a natural key.                  *)
(***************************************************************************)
UpdateUserKeepingEmail ==
    /\ UpdateUser
    /\ \A i \in DOMAIN fake_db : fake_db'[i].value.email = fake_db[i].value.email

UpdateBlogPostKeepingSlug ==
    /\ UpdateBlogPost
    /\ \A i \in DOMAIN fake_blog_db :
            fake_blog_db'[i].value.slug = fake_blog_db[i].value.slug

NextKeyStable ==
    \/ CreateUser
    \/ ReadUsers
    \/ ReadUser
    \/ UpdateUserKeepingEmail
    \/ DeleteUser
    \/ CreateBlogPost
    \/ ReadBlogPosts
    \/ ReadBlogPost
    \/ UpdateBlogPostKeepingSlug
    \/ DeleteBlogPost

SpecKeyStable == Init /\ [][NextKeyStable]_vars

(***************************************************************************)
(* Two runs of the Users endpoints side by side: fake_db and response are  *)
(* the first run, alt_db and alt_response the second, which is sent the    *)
(* same requests but for the passwords, and draws the same uuid4 values.   *)
(***************************************************************************)
\* The body the second run is sent: any accepted password in place of an
\* accepted password.
WithPassword(raw, pw) ==
    IF /\ "password" \in DOMAIN raw
       /\ ~raw["password"].isnull
       /\ validate_password_complexity(raw["password"].v)
    THEN [raw EXCEPT !["password"] = Val(pw)]
    ELSE raw

TwoRunsCreateUser ==
    /\ Handled
    /\ \E raw \in UserCreateBodies, pw \in Passwords :
        LET r == post_users(fake_db, uuid4(uuid_count), raw)
            a == post_users(alt_db, uuid4(uuid_count), WithPassword(raw, pw))
        IN  /\ fake_db' = r.db
            /\ response' = r.response
            /\ alt_db' = a.db
            /\ alt_response' = a.response
            /\ uuid_count' = IF post_users_mints(fake_db, raw)
                             THEN uuid4(uuid_count) ELSE uuid_count
            /\ request' = Request("POST", "/users/", UnknownId, raw, <<>>)
    /\ UNCHANGED <<fake_blog_db, clock, deleted, tasks>>

TwoRunsReadUsers ==
    /\ Handled
    /\ \E q \in ListQueries :
        /\ response' = read_users(fake_db, q).response
        /\ alt_response' = read_users(alt_db, q).response
        /\ request' = Request("GET", "/users/", UnknownId, EmptyBody, q)
    /\ UNCHANGED <<fake_db, alt_db, fake_blog_db, uuid_count, clock, deleted, tasks>>

TwoRunsReadUser ==
    /\ Handled
    /\ \E user_id \in TargetIds :
        /\ response' = read_user(fake_db, user_id).response
        /\ alt_response' = read_user(alt_db, user_id).response
        /\ request' = Request("GET", "/users/{user_id}", user_id, EmptyBody, <<>>)
    /\ UNCHANGED <<fake_db, alt_db, fake_blog_db, uuid_count, clock, deleted, tasks>>

TwoRunsUpdateUser ==
    /\ Handled
    /\ \E user_id \in TargetIds, raw \in UserUpdateBodies, pw \in Passwords :
        LET r == patch_user(fake_db, user_id, raw)
            a == patch_user(alt_db, user_id, WithPassword(raw, pw))
        IN  /\ fake_db' = r.db
            /\ response' = r.response
            /\ alt_db' = a.db
            /\ alt_response' = a.response
            /\ request' = Request("PATCH", "/users/{user_id}", user_id, raw, <<>>)
    /\ UNCHANGED <<fake_blog_db, uuid_count, clock, deleted, tasks>>

TwoRunsDeleteUser ==
    /\ Handled
    /\ \E user_id \in TargetIds :
        LET r == delete_user(fake_db, user_id)
            a == delete_user(alt_db, user_id)
        IN  /\ fake_db' = r.db
            /\ response' = r.response
            /\ alt_db' = a.db
            /\ alt_response' = a.response
            /\ deleted' = Deleted(user_id, r.response)
            /\ request' = Request("DELETE", "/users/{user_id}", user_id, EmptyBody, <<>>)
    /\ UNCHANGED <<fake_blog_db, uuid_count, clock, tasks>>

NextTwoRuns ==
    \/ TwoRunsCreateUser
    \/ TwoRunsReadUsers
    \/ TwoRunsReadUser
    \/ TwoRunsUpdateUser
    \/ TwoRunsDeleteUser

SpecTwoRuns == Init /\ [][NextTwoRuns]_vars

\* The record stored under id in db.
RecordOf(db, id) == db[CHOOSE i \in DOMAIN db : db[i].key = id].value

(***************************************************************************)
(* The same service when requests overlap.  A handler is a coroutine with  *)
(* no await, so its body is one step; the get_*_from_db dependencies are    *)
(* plain functions, which the framework runs in its thread pool and awaits: *)
(* between the dependency's lookup and the handler body the event loop may  *)
(* run the steps of other requests.  A create has no dependency: its body   *)
(* validation, scan and insert are one step.                                *)
(***************************************************************************)
\* A request just received.  fetched is the object the dependency returned;
\* concurrent says that another request was in flight while this one was.
Task(req, overlapping) ==
    [request |-> req, pc |-> "received", fetched |-> NoObject,
     response |-> NoResponse, concurrent |-> overlapping]

InFlight(t) == t.pc # "done"

\* The task table once task i is answered.
Answered(ts, i, resp) ==
    [ts EXCEPT ![i].pc = "done", ![i].response = resp, ![i].fetched = NoObject]

\* setattr changes the object itself: every task that holds the object with
\* this id sees its new state.
SetAttrs(ts, id, obj) ==
    [k \in DOMAIN ts |->
        IF ts[k].fetched # NoObject /\ ts[k].fetched[1].id = id
        THEN [ts[k] EXCEPT !.fetched = Some(obj)]
        ELSE ts[k]]

\* The overlapping requests: creates that carry one natural key per resource
\* with different payloads, one update per resource, and the deletes; each
\* clock read finds the clock moved on.
OverlapUserCreateBodies ==
    {raw \in UserCreateBodies :
        raw["email"].v = "a@x.io" /\ UserCreateErrors(raw) = {}}
OverlapBlogPostCreateBodies ==
    {raw \in BlogPostCreateBodies :
        raw["slug"].v = "hi-there" /\ BlogPostCreateErrors(raw) = {}}
OverlapUserUpdateBodies == {[first_name |-> Val("Bea")]}
OverlapBlogPostUpdateBodies == {[is_published |-> Val(TRUE)]}
OverlapTicks == {1}

OverlapRequests ==
    {Request("POST", "/users/", UnknownId, raw, <<>>) : raw \in OverlapUserCreateBodies}
    \cup {Request("POST", "/posts/", UnknownId, raw, <<>>) :
            raw \in OverlapBlogPostCreateBodies}
    \cup {Request("PATCH", "/users/{user_id}", id, raw, <<>>) :
            id \in TargetIds, raw \in OverlapUserUpdateBodies}
    \cup {Request("PATCH", "/posts/{post_id}", id, raw, <<>>) :
            id \in TargetIds, raw \in OverlapBlogPostUpdateBodies}
    \cup {Request("DELETE", path, id, EmptyBody, <<>>) :
            path \in {"/users/{user_id}", "/posts/{post_id}"}, id \in TargetIds}

\* A request arrives.
Receive ==
    /\ steps < MaxSteps
    /\ steps' = steps + 1
    /\ \E req \in OverlapRequests :
        LET overlapping == \E k \in DOMAIN tasks : InFlight(tasks[k])
        IN  tasks' = Append([k \in DOMAIN tasks |->
                                IF InFlight(tasks[k])
                                THEN [tasks[k] EXCEPT !.concurrent = TRUE]
                                ELSE tasks[k]],
                            Task(req, overlapping))
    /\ UNCHANGED <<fake_db, fake_blog_db, uuid_count, clock, request, response,
                   deleted, alt_db, alt_response>>

\* POST /users/: validation and the body of create_user
RunCreateUser ==
    \E i \in DOMAIN tasks :
        LET req == tasks[i].request
            r == post_users(fake_db, uuid4(uuid_count), req.body)
        IN  /\ tasks[i].pc = "received"
            /\ req.method = "POST" /\ req.path = "/users/"
            /\ fake_db' = r.db
            /\ uuid_count' = IF post_users_mints(fake_db, req.body)
                             THEN uuid4(uuid_count) ELSE uuid_count
            /\ tasks' = Answered(tasks, i, r.response)
            /\ request' = req
            /\ response' = r.response
            /\ UNCHANGED <<fake_blog_db, clock, steps, deleted, alt_db, alt_response>>

\* POST /posts/: validation and the body of create_blog_post
RunCreateBlogPost ==
    \E i \in DOMAIN tasks, d1 \in OverlapTicks, d2 \in OverlapTicks :
        LET req == tasks[i].request
            mints == post_posts_mints(fake_blog_db, req.body)
            now_created == clock + d1
            now_updated == now_created + d2
            r == post_posts(fake_blog_db, uuid4(uuid_count), now_created,
                            now_updated, req.body)
        IN  /\ tasks[i].pc = "received"
            /\ req.method = "POST" /\ req.path = "/posts/"
            /\ fake_blog_db' = r.db
            /\ uuid_count' = IF mints THEN uuid4(uuid_count) ELSE uuid_count
            /\ clock' = IF mints THEN now_updated ELSE clock
            /\ tasks' = Answered(tasks, i, r.response)
            /\ request' = req
            /\ response' = r.response
            /\ UNCHANGED <<fake_db, steps, deleted, alt_db, alt_response>>

\* Depends(get_user_from_db) of a PATCH or DELETE /users/{user_id}
SolveUserDependency ==
    \E i \in DOMAIN tasks :
        LET req == tasks[i].request
            user == get_user_from_db(fake_db, req.id)
        IN  /\ tasks[i].pc = "received"
            /\ req.path = "/users/{user_id}"
            /\ IF user = NoObject
               THEN /\ tasks' = Answered(tasks, i, NotFound("User not found"))
                    /\ request' = req
                    /\ response' = NotFound("User not found")
               ELSE /\ tasks' = [tasks EXCEPT ![i].pc = "solved", ![i].fetched = user]
                    /\ UNCHANGED <<request, response>>
            /\ UNCHANGED <<fake_db, fake_blog_db, uuid_count, clock, steps, deleted,
                           alt_db, alt_response>>

\* Depends(get_blog_post_from_db) of a PATCH or DELETE /posts/{post_id}
SolveBlogPostDependency ==
    \E i \in DOMAIN tasks :
        LET req == tasks[i].request
            post == get_blog_post_from_db(fake_blog_db, req.id)
        IN  /\ tasks[i].pc = "received"
            /\ req.path = "/posts/{post_id}"
            /\ IF post = NoObject
               THEN /\ tasks' = Answered(tasks, i, NotFound("Blog post not found"))
                    /\ request' = req
                    /\ response' = NotFound("Blog post not found")
               ELSE /\ tasks' = [tasks EXCEPT ![i].pc = "solved", ![i].fetched = post]
                    /\ UNCHANGED <<request, response>>
            /\ UNCHANGED <<fake_db, fake_blog_db, uuid_count, clock, steps, deleted,
                           alt_db, alt_response>>

\* PATCH /users/{user_id} after its dependency: validation of the body and
\* the body of update_user
RunUpdateUser ==
    \E i \in DOMAIN tasks :
        LET req == tasks[i].request
            r == IF UserUpdateErrors(req.body) # {}
                 THEN Result(fake_db, BodyValidationError(UserUpdateErrors(req.body)))
                 ELSE update_user_handler(fake_db, req.id, UserUpdate(req.body),
                                          tasks[i].fetched[1])
        IN  /\ tasks[i].pc = "solved"
            /\ req.method = "PATCH" /\ req.path = "/users/{user_id}"
            /\ fake_db' = r.db
            /\ tasks' = Answered(IF r.response.status = HTTP_200_OK
                                 THEN SetAttrs(tasks, req.id,
                                               RecordOf(r.db, req.id))
                                 ELSE tasks, i, r.response)
            /\ request' = req
            /\ response' = r.response
            /\ UNCHANGED <<fake_blog_db, uuid_count, clock, steps, deleted,
                           alt_db, alt_response>>

\* DELETE /users/{user_id} after its dependency: the body of delete_user
RunDeleteUser ==
    \E i \in DOMAIN tasks :
        LET req == tasks[i].request
            r == delete_user_handler(fake_db, req.id)
        IN  /\ tasks[i].pc = "solved"
            /\ req.method = "DELETE" /\ req.path = "/users/{user_id}"
            /\ fake_db' = r.db
            /\ deleted' = Deleted(req.id, r.response)
            /\ tasks' = Answered(tasks, i, r.response)
            /\ request' = req
            /\ response' = r.response
            /\ UNCHANGED <<fake_blog_db, uuid_count, clock, steps, alt_db,
                           alt_response>>

\* PATCH /posts/{post_id} after its dependency
RunUpdateBlogPost ==
    \E i \in DOMAIN tasks, d \in OverlapTicks :
        LET req == tasks[i].request
            valid == BlogPostUpdateErrors(req.body) = {}
            reads == /\ valid
                     /\ DOMAIN drop_none(model_dump_exclude_unset(
                                            BlogPostUpdate(req.body))) # {}
            now == clock + d
            r == IF ~valid
                 THEN Result(fake_blog_db,
                             BodyValidationError(BlogPostUpdateErrors(req.body)))
                 ELSE update_blog_post_handler(fake_blog_db, req.id, now,
                                               BlogPostUpdate(req.body),
                                               tasks[i].fetched[1])
        IN  /\ tasks[i].pc = "solved"
            /\ req.method = "PATCH" /\ req.path = "/posts/{post_id}"
            /\ fake_blog_db' = r.db
            /\ clock' = IF reads THEN now ELSE clock
            /\ tasks' = Answered(IF r.response.status = HTTP_200_OK
                                 THEN SetAttrs(tasks, req.id,
                                               RecordOf(r.db, req.id))
                                 ELSE tasks, i, r.response)
            /\ request' = req
            /\ response' = r.response
            /\ UNCHANGED <<fake_db, uuid_count, steps, deleted, alt_db, alt_response>>

\* DELETE /posts/{post_id} after its dependency
RunDeleteBlogPost ==
    \E i \in DOMAIN tasks :
        LET req == tasks[i].request
            r == delete_blog_post_handler(fake_blog_db, req.id)
        IN  /\ tasks[i].pc = "solved"
            /\ req.method = "DELETE" /\ req.path = "/posts/{post_id}"
            /\ fake_blog_db' = r.db
            /\ deleted' = Deleted(req.id, r.response)
            /\ tasks' = Answered(tasks, i, r.response)
            /\ request' = req
            /\ response' = r.response
            /\ UNCHANGED <<fake_db, uuid_count, clock, steps, alt_db, alt_response>>

NextOverlap ==
    \/ Receive
    \/ RunCreateUser
    \/ RunCreateBlogPost
    \/ SolveUserDependency
    \/ SolveBlogPostDependency
    \/ RunUpdateUser
    \/ RunDeleteUser
    \/ RunUpdateBlogPost
    \/ RunDeleteBlogPost

SpecOverlap == Init /\ [][NextOverlap]_vars

(***************************************************************************)
(* The same service from the state three creates leave behind: two users   *)
(* with different emails and a blog post.  steps counts the requests        *)
(* handled after these.                                                     *)
(***************************************************************************)
SeedUserBodies ==
    <<[email |-> Val("a@x.io"), password |-> Val("Passw0rd")],
      [email |-> Val("b@x.io"), password |-> Val("Passw0rd")]>>
SeedBlogPostBody ==
    [title |-> Val("Hi"), slug |-> Val("hi-there"), content |-> Val("0123456789"),
     author_id |-> Val(UnknownId)]
\* fake_db after POST /users/ of the two bodies, which draw the ids 1 and 2
SeedUsers ==
    post_users(post_users(<<>>, uuid4(0), SeedUserBodies[1]).db,
               uuid4(1), SeedUserBodies[2]).db
\* The last of the three creates: POST /posts/ of the body, which draws the
\* id 3, while the clock stands at 0.
SeedLastCreate == post_posts(<<>>, uuid4(2), 0, 0, SeedBlogPostBody)

InitSeeded ==
    /\ fake_db = SeedUsers
    /\ fake_blog_db = SeedLastCreate.db
    /\ uuid_count = uuid4(2)
    /\ clock = 0
    /\ steps = 0
    /\ request = Request("POST", "/posts/", UnknownId, SeedBlogPostBody, <<>>)
    /\ response = SeedLastCreate.response
    /\ deleted = {}
    /\ alt_db = <<>>
    /\ alt_response = NoResponse
    /\ tasks = <<>>

SpecSeeded == InitSeeded /\ [][Next]_vars

(***************************************************************************)
(* Properties.  A step is a transition that handles one request; request'  *)
(* and response' are that request and its response, the unprimed stores    *)
(* are the stores before it.                                               *)
(***************************************************************************)
IsStep == steps' = steps + 1
IsCreateUser(req) == req.method = "POST" /\ req.path = "/users/"
IsCreatePost(req) == req.method = "POST" /\ req.path = "/posts/"
IsListing(req) == req.method = "GET" /\ req.path \in {"/users/", "/posts/"}
IsPatchUser(req) == req.method = "PATCH" /\ req.path = "/users/{user_id}"
IsPatchPost(req) == req.method = "PATCH" /\ req.path = "/posts/{post_id}"
ByIdPaths == {"/users/{user_id}", "/posts/{post_id}"}
\* The fields a body gives a non-null value.
NonNullFields(body) == {f \in DOMAIN body : ~body[f].isnull}

\* C1: a create whose natural key (email, slug) a stored record already has
\* answers with the id of a stored record with that key and leaves the store
\* as it was; the same create issued twice in a row answers the same id.
C1_IdempotentCreate ==
    [][IsStep /\ request'.method = "POST" =>
        /\ (/\ IsCreateUser(request')
            /\ UserCreateErrors(request'.body) = {}
            /\ \E i \in DOMAIN fake_db :
                    fake_db[i].value.email = request'.body["email"].v)
           => /\ response'.kind = "user"
              /\ \E i \in DOMAIN fake_db :
                    /\ fake_db[i].value.email = request'.body["email"].v
                    /\ fake_db[i].value.id = response'.body.id
              /\ fake_db' = fake_db
        /\ (/\ IsCreatePost(request')
            /\ BlogPostCreateErrors(request'.body) = {}
            /\ \E i \in DOMAIN fake_blog_db :
                    fake_blog_db[i].value.slug = request'.body["slug"].v)
           => /\ response'.kind = "post"
              /\ \E i \in DOMAIN fake_blog_db :
                    /\ fake_blog_db[i].value.slug = request'.body["slug"].v
                    /\ fake_blog_db[i].value.id = response'.body.id
              /\ fake_blog_db' = fake_blog_db
        /\ (/\ request.method = "POST"
            /\ request'.path = request.path
            /\ request'.body = request.body
            /\ response.kind \in {"user", "post"})
           => /\ response'.kind = response.kind
              /\ response'.body.id = response.body.id
    ]_vars

\* C1 witness: a POST /users/ answered with a stored user whose first_name is
\* not the payload's: the existing record came back, not overwritten.
C1_Witness ==
    /\ IsCreateUser(request)
    /\ response.kind = "user"
    /\ response.body.first_name # UserCreate(request.body).first_name
    /\ \E i \in DOMAIN fake_db : fake_db[i].value.id = response.body.id
                                 /\ UserRead(fake_db[i].value) = response.body

\* C2: a create answers 201 exactly when it minted and stored a record, and
\* 200 exactly when it returned an existing record.
C2_CreateStatus ==
    [][IsStep /\ request'.method = "POST" =>
        LET minted == IF IsCreateUser(request')
                      THEN Len(fake_db') = Len(fake_db) + 1
                      ELSE Len(fake_blog_db') = Len(fake_blog_db) + 1
            returned == response'.kind \in {"user", "post"} /\ ~minted
        IN  /\ response'.status = 201 <=> minted
            /\ response'.status = 200 <=> returned
    ]_vars

\* C3: when no update changes a natural key, no two stored users share an
\* email and no two stored blog posts share a slug.
C3_UniqueNaturalKeys ==
    /\ \A i, j \in DOMAIN fake_db :
            fake_db[i].value.email = fake_db[j].value.email => i = j
    /\ \A i, j \in DOMAIN fake_blog_db :
            fake_blog_db[i].value.slug = fake_blog_db[j].value.slug => i = j

\* C3 witness: two users are stored and a POST /users/ was answered with the
\* first of them instead of minting a third.
C3_Witness ==
    /\ Len(fake_db) = 2
    /\ IsCreateUser(request)
    /\ response.kind = "user"
    /\ response.body.id = fake_db[1].value.id

\* C4: a successful PATCH gives exactly the fields its payload holds with a
\* non-null value the payload's values; every other field of the record (for
\* a blog post: every other field but updated_at) keeps its value, every other
\* record of the store is as it was, and so is the other store.
C4_UserFrame(id, body) ==
    LET old == RecordOf(fake_db, id)
        new == RecordOf(fake_db', id)
        set == NonNullFields(body)
    IN  /\ dict_keys(fake_db') = dict_keys(fake_db)
        /\ Len(fake_db') = Len(fake_db)
        /\ DOMAIN new = DOMAIN old
        /\ \A f \in DOMAIN old \ set : new[f] = old[f]
        /\ \A f \in set \ {"password"} : new[f] = body[f].v
        /\ "password" \in set => new["password"].value = body["password"].v
        /\ \A i \in DOMAIN fake_db : fake_db[i].key # id => fake_db'[i] = fake_db[i]
        /\ fake_blog_db' = fake_blog_db

C4_PostFrame(id, body) ==
    LET old == RecordOf(fake_blog_db, id)
        new == RecordOf(fake_blog_db', id)
        set == NonNullFields(body)
    IN  /\ dict_keys(fake_blog_db') = dict_keys(fake_blog_db)
        /\ Len(fake_blog_db') = Len(fake_blog_db)
        /\ DOMAIN new = DOMAIN old
        /\ \A f \in DOMAIN old \ (set \cup {"updated_at"}) : new[f] = old[f]
        /\ \A f \in set : new[f] = body[f].v
        /\ \A i \in DOMAIN fake_blog_db :
                fake_blog_db[i].key # id => fake_blog_db'[i] = fake_blog_db[i]
        /\ fake_db' = fake_db

C4_PartialUpdateFrame ==
    [][IsStep /\ request'.method = "PATCH" /\ response'.status = 200 =>
        /\ IsPatchUser(request') => C4_UserFrame(request'.id, request'.body)
        /\ IsPatchPost(request') => C4_PostFrame(request'.id, request'.body)
    ]_vars

\* C4 witness: a successful PATCH /users/{id} whose payload holds a value and
\* a null, while a blog post is stored.
C4_Witness ==
    /\ IsPatchUser(request)
    /\ response.status = 200
    /\ NonNullFields(request.body) # {}
    /\ NonNullFields(request.body) # DOMAIN request.body
    /\ fake_blog_db # <<>>

\* C5: a null field of an update payload leaves the stored field as it was, no
\* Optional field goes from a value to None through an update, and a PATCH of
\* a stored id whose payload is empty or all null answers 200 and leaves the
\* store, updated_at included, as it was.
C5_Nulls(db, dbNext, id, body, optional) ==
    LET old == RecordOf(db, id)
        new == RecordOf(dbNext, id)
    IN  /\ \A f \in DOMAIN body \cap DOMAIN old : body[f].isnull => new[f] = old[f]
        /\ \A f \in optional : old[f] # None => new[f] # None
        /\ NonNullFields(body) = {} => dbNext = db

C5_NullSuppression ==
    [][IsStep /\ request'.method = "PATCH" =>
        /\ (IsPatchUser(request') /\ response'.status = 200)
           => C5_Nulls(fake_db, fake_db', request'.id, request'.body,
                       {"first_name", "last_name"})
        /\ (IsPatchPost(request') /\ response'.status = 200)
           => C5_Nulls(fake_blog_db, fake_blog_db', request'.id, request'.body,
                       {"excerpt"})
        /\ (/\ IsPatchUser(request')
            /\ request'.id \in dict_keys(fake_db)
            /\ DOMAIN request'.body \subseteq UserUpdateFields
            /\ NonNullFields(request'.body) = {})
           => response'.status = 200
        /\ (/\ IsPatchPost(request')
            /\ request'.id \in dict_keys(fake_blog_db)
            /\ DOMAIN request'.body \subseteq BlogPostUpdateFields
            /\ NonNullFields(request'.body) = {})
           => response'.status = 200
    ]_vars

\* C5 witness: a PATCH /posts/{id} with a payload of nulls only was answered
\* 200 for a post that has an excerpt.
C5_Witness ==
    /\ IsPatchPost(request)
    /\ response.status = 200
    /\ DOMAIN request.body # {}
    /\ NonNullFields(request.body) = {}
    /\ response.body.excerpt # None

\* C6: an id whose DELETE succeeded is in neither store from then on, every
\* later GET, PATCH or DELETE of it answers 404, and no create answers with it.
C6_DeleteIsPermanent ==
    [][IsStep =>
        /\ deleted' \cap (dict_keys(fake_db') \cup dict_keys(fake_blog_db')) = {}
        /\ (request'.method = "DELETE" /\ response'.status = 204)
           => request'.id \in deleted'
        /\ (request'.path \in ByIdPaths /\ request'.id \in deleted)
           => response'.status = 404
        /\ (request'.method = "POST" /\ response'.kind \in {"user", "post"})
           => response'.body.id \notin deleted
    ]_vars

\* C6 witness: a PATCH of a user id deleted before was answered 404.
C6_Witness ==
    /\ IsPatchUser(request)
    /\ request.id \in deleted
    /\ response.status = 404

C8_Unknown(q) == {q[i].name : i \in DOMAIN q} \ {"skip", "limit"}

C8_StrictQueryGuard ==
    [][IsStep /\ IsListing(request') /\ C8_Unknown(request'.query) # {} =>
        LET q == request'.query
            detail == response'.body
        IN  /\ response'.status = 422
            /\ response'.kind = "errors"
            /\ Len(detail) = Cardinality(C8_Unknown(q))
            /\ \A n \in C8_Unknown(q) :
                    \E i \in DOMAIN detail : detail[i].loc = <<"query", n>>
            /\ \A i \in DOMAIN detail :
                    /\ detail[i].loc[1] = "query"
                    /\ detail[i].loc[2] \in C8_Unknown(q)
                    /\ detail[i].msg = "Unknown query parameter"
                    /\ \E j \in DOMAIN q : /\ q[j].name = detail[i].loc[2]
                                           /\ q[j].value = detail[i].input
            /\ UNCHANGED <<fake_db, fake_blog_db>>
    ]_vars

\* C8 witness: GET /users/?foo=bar&limit=101, an unknown name beside a limit
\* out of range, was answered 422 with the one entry for foo.
C8_Witness ==
    /\ IsListing(request)
    /\ request.path = "/users/"
    /\ request.query = <<Param("foo", Text("bar")), Param("limit", Num(101))>>
    /\ response.status = 422
    /\ Len(response.body) = 1
    /\ response.body[1].loc = <<"query", "foo">>
    /\ fake_db # <<>>

\* C9: a listing request whose skip is below 0 or whose limit is below 1 or
\* above 100 is answered 422 with the validation errors and no records; a
\* listing answered 200 had skip >= 0 and 1 <= limit <= 100 and holds at most
\* limit records.  The value of a parameter sent twice is the last one.
C9_Has(q, name) == \E i \in DOMAIN q : q[i].name = name
C9_Last(q, name) ==
    LET at == CHOOSE i \in DOMAIN q :
                /\ q[i].name = name
                /\ \A j \in DOMAIN q : q[j].name = name => j <= i
    IN  q[at].value
C9_OutOfRange(q) ==
    \/ C9_Has(q, "skip") /\ C9_Last(q, "skip").isint /\ C9_Last(q, "skip").n < 0
    \/ /\ C9_Has(q, "limit")
       /\ C9_Last(q, "limit").isint
       /\ (C9_Last(q, "limit").n < 1 \/ C9_Last(q, "limit").n > 100)

C9_ListingBounds ==
    IsListing(request) =>
        LET q == request.query
            limit == IF C9_Has(q, "limit") THEN C9_Last(q, "limit").n ELSE 100
        IN  /\ C9_OutOfRange(q)
               => response.status = 422 /\ response.kind = "errors"
            /\ response.status = 200
               => /\ response.kind \in {"users", "posts"}
                  /\ ~C9_OutOfRange(q)
                  /\ C9_Has(q, "skip") => C9_Last(q, "skip").isint
                  /\ C9_Has(q, "limit") => C9_Last(q, "limit").isint
                  /\ Len(response.body) <= limit

\* C9 witness: GET /posts/?skip=0&limit=101 was answered 422 while a blog
\* post is stored.
C9_Witness ==
    /\ IsListing(request)
    /\ request.path = "/posts/"
    /\ request.query = <<Param("skip", Num(0)), Param("limit", Num(101))>>
    /\ response.status = 422
    /\ fake_blog_db # <<>>

\* C10: a blog post just minted has is_published = false when the payload
\* leaves is_published out, and created_at equal to updated_at.
C10_CreationTimestamps ==
    [][IsStep /\ IsCreatePost(request')
              /\ Len(fake_blog_db') = Len(fake_blog_db) + 1 =>
        LET new == fake_blog_db'[Len(fake_blog_db')].value
        IN  /\ "is_published" \notin DOMAIN request'.body => new.is_published = FALSE
            /\ new.created_at = new.updated_at
    ]_vars

\* C11: a successful PATCH of a blog post whose payload holds a non-null field
\* leaves updated_at strictly greater than it was and created_at and the
\* fields the payload does not hold as they were; and every stored blog post
\* has updated_at >= created_at.
C11_ModificationTimestamp ==
    [][IsStep =>
        /\ (/\ IsPatchPost(request')
            /\ response'.status = 200
            /\ NonNullFields(request'.body) # {})
           => LET old == RecordOf(fake_blog_db, request'.id)
                  new == RecordOf(fake_blog_db', request'.id)
              IN  /\ new.updated_at > old.updated_at
                  /\ new.created_at = old.created_at
                  /\ \A f \in DOMAIN old \ (NonNullFields(request'.body)
                                            \cup {"updated_at"}) : new[f] = old[f]
        /\ \A i \in DOMAIN fake_blog_db' :
                fake_blog_db'[i].value.updated_at >= fake_blog_db'[i].value.created_at
    ]_vars

\* C12: after every request each record of either store is stored under its
\* own id and no two records of a store share an id; a create answered with a
\* record carries an id under which a get then returns that same record; and
\* an update leaves every record's id as it was.
C12_KeyedById(db) ==
    /\ \A i \in DOMAIN db : db[i].key = db[i].value.id
    /\ \A i, j \in DOMAIN db : db[i].value.id = db[j].value.id => i = j

C12_IdentifierIntegrity ==
    [][IsStep =>
        /\ C12_KeyedById(fake_db')
        /\ C12_KeyedById(fake_blog_db')
        /\ (IsCreateUser(request') /\ response'.kind = "user")
           => LET got == read_user(fake_db', response'.body.id).response
              IN  got.status = 200 /\ got.kind = "user" /\ got.body = response'.body
        /\ (IsCreatePost(request') /\ response'.kind = "post")
           => LET got == read_blog_post(fake_blog_db', response'.body.id).response
              IN  got.status = 200 /\ got.kind = "post" /\ got.body = response'.body
        /\ request'.method = "PATCH"
           => /\ Len(fake_db') = Len(fake_db)
              /\ Len(fake_blog_db') = Len(fake_blog_db)
              /\ \A i \in DOMAIN fake_db : fake_db'[i].value.id = fake_db[i].value.id
              /\ \A i \in DOMAIN fake_blog_db :
                    fake_blog_db'[i].value.id = fake_blog_db[i].value.id
    ]_vars

\* C12 witness: a second user was minted after the first was updated, and the
\* create's response carries the second record's key.
C12_Witness ==
    /\ IsCreateUser(request)
    /\ response.kind = "user"
    /\ Len(fake_db) = 2
    /\ fake_db[1].value.role = "ADMIN"
    /\ response.body.id = fake_db[2].key
    /\ fake_db[2].key # fake_db[1].key

\* The natural key a create request carries.
C13_Key(req) == IF IsCreateUser(req) THEN req.body["email"].v ELSE req.body["slug"].v
\* The natural keys of the records stored for the resource of the request.
C13_StoredKeys(req) ==
    IF IsCreateUser(req)
    THEN [i \in DOMAIN fake_db |-> fake_db[i].value.email]
    ELSE [i \in DOMAIN fake_blog_db |-> fake_blog_db[i].value.slug]
C13_StoredIds(req) ==
    IF IsCreateUser(req)
    THEN [i \in DOMAIN fake_db |-> fake_db[i].value.id]
    ELSE [i \in DOMAIN fake_blog_db |-> fake_blog_db[i].value.id]
\* A create request that was answered with a record.
C13_Created(t) ==
    /\ t.pc = "done"
    /\ t.request.method = "POST"
    /\ t.response.kind \in {"user", "post"}

\* C13: when the store started without the key and only creates have changed
\* it (no delete and no update has succeeded), however the requests overlap,
\* all the creates answered for one natural key carry the same id, and the
\* store holds exactly one record with that key, which has that id.
C13_ConcurrentIdempotentCreate ==
    (/\ deleted = {}
     /\ \A k \in DOMAIN tasks :
            ~(tasks[k].request.method = "PATCH" /\ tasks[k].response.status = 200))
    => /\ \A i, j \in DOMAIN tasks :
            (/\ C13_Created(tasks[i])
             /\ C13_Created(tasks[j])
             /\ tasks[i].request.path = tasks[j].request.path
             /\ C13_Key(tasks[i].request) = C13_Key(tasks[j].request))
            => tasks[i].response.body.id = tasks[j].response.body.id
       /\ \A i \in DOMAIN tasks :
            C13_Created(tasks[i])
            => LET keys == C13_StoredKeys(tasks[i].request)
                   ids == C13_StoredIds(tasks[i].request)
                   at == {n \in DOMAIN keys : keys[n] = C13_Key(tasks[i].request)}
               IN  /\ Cardinality(at) = 1
                   /\ \A n \in at : ids[n] = tasks[i].response.body.id

\* C13 witness: two POST /users/ with the same email and different payloads
\* were in flight together, both were answered with the one stored record.
C13_Witness ==
    /\ Len(tasks) = 2
    /\ \A i \in {1, 2} :
            /\ C13_Created(tasks[i])
            /\ IsCreateUser(tasks[i].request)
            /\ tasks[i].concurrent
    /\ tasks[1].request.body # tasks[2].request.body
    /\ tasks[1].response.body.id = tasks[2].response.body.id
    /\ Len(fake_db) = 1

\* C14: no update writes back a record whose DELETE took effect after the
\* update fetched it, and an id whose DELETE succeeded is in neither store from
\* then on: no write-back inserts it again.
C14_UpdateDeleteIsolation ==
    [][/\ \A i \in DOMAIN tasks :
            (/\ tasks[i].pc = "solved"
             /\ tasks'[i].pc = "done"
             /\ tasks[i].request.method = "PATCH"
             /\ tasks'[i].response.status = HTTP_200_OK)
            => tasks[i].request.id \notin deleted
       /\ deleted' \cap (dict_keys(fake_db') \cup dict_keys(fake_blog_db')) = {}
    ]_vars

\* C15: every DELETE ends in 204, having removed the targeted record and
\* nothing else, or in 404 with the stores as they were, and in no other
\* outcome; of two overlapping DELETEs of the same id at most one ends in 204.
C15_DeleteOutcomes ==
    [][\A i \in DOMAIN tasks :
        (/\ tasks[i].pc # "done"
         /\ tasks'[i].pc = "done"
         /\ tasks[i].request.method = "DELETE")
        => LET req == tasks[i].request
               resp == tasks'[i].response
           IN  /\ resp.status \in {HTTP_204_NO_CONTENT, HTTP_404_NOT_FOUND}
               /\ (resp.status = HTTP_204_NO_CONTENT /\ req.path = "/users/{user_id}")
                  => /\ dict_has(fake_db, req.id)
                     /\ fake_db' = dict_del(fake_db, req.id)
                     /\ fake_blog_db' = fake_blog_db
               /\ (resp.status = HTTP_204_NO_CONTENT /\ req.path = "/posts/{post_id}")
                  => /\ dict_has(fake_blog_db, req.id)
                     /\ fake_blog_db' = dict_del(fake_blog_db, req.id)
                     /\ fake_db' = fake_db
               /\ resp.status = HTTP_404_NOT_FOUND
                  => UNCHANGED <<fake_db, fake_blog_db>>
               /\ \A j \in DOMAIN tasks :
                    (/\ j # i
                     /\ tasks[j].pc = "done"
                     /\ tasks[j].concurrent
                     /\ tasks[i].concurrent
                     /\ tasks[j].request = req
                     /\ tasks[j].response.status = HTTP_204_NO_CONTENT)
                    => resp.status = HTTP_404_NOT_FOUND
    ]_vars

\* The positions of the records of db whose field has the value.
C16_Holders(db, field, v) == {i \in DOMAIN db : db[i].value[field] = v}
\* What C16 says of one resource: db and dbNext are its store before and after
\* the request, field its natural key, fields the fields an update may hold.
C16_Resource(db, dbNext, field, fields, isPatch, isCreate, isValidCreate) ==
    LET body == request'.body
        id == request'.id
    IN  /\ (/\ isPatch
            /\ dict_has(db, id)
            /\ DOMAIN body \subseteq fields
            /\ field \in NonNullFields(body)
            /\ \E i \in C16_Holders(db, field, body[field].v) : db[i].key # id)
           => /\ response'.status = HTTP_200_OK
              /\ response'.body[field] = body[field].v
              /\ Cardinality(C16_Holders(dbNext, field, body[field].v)) >= 2
              /\ RecordOf(dbNext, id)[field] = body[field].v
        /\ (/\ isCreate
            /\ isValidCreate
            /\ Cardinality(C16_Holders(db, field, body[field].v)) >= 2)
           => LET first == CHOOSE i \in C16_Holders(db, field, body[field].v) :
                              \A j \in C16_Holders(db, field, body[field].v) : i <= j
              IN  /\ response'.status \in {HTTP_200_OK, HTTP_201_CREATED}
                  /\ response'.body.id = db[first].key
                  /\ dbNext = db
                  /\ uuid_count' = uuid_count

\* C16: a PATCH that sets a record's email or slug to the value another stored
\* record holds is answered 200 and leaves two records with that value; a
\* create with a key two records hold is answered with the earliest inserted
\* of them and mints nothing.
C16_NoUniquenessRecheck ==
    [][IsStep =>
        /\ C16_Resource(fake_db, fake_db', "email", UserUpdateFields,
                        IsPatchUser(request'), IsCreateUser(request'),
                        UserCreateErrors(request'.body) = {})
        /\ C16_Resource(fake_blog_db, fake_blog_db', "slug", BlogPostUpdateFields,
                        IsPatchPost(request'), IsCreatePost(request'),
                        BlogPostCreateErrors(request'.body) = {})
    ]_vars

\* C16 witness: both stored users have the email b@x.io, the second one from
\* its creation and the first by an update, and a POST /users/ with that email
\* was answered with the first.
C16_Witness ==
    /\ Len(fake_db) = 2
    /\ fake_db[1].value.email = "b@x.io"
    /\ fake_db[2].value.email = "b@x.io"
    /\ IsCreateUser(request)
    /\ request.body["email"].v = "b@x.io"
    /\ response.kind = "user"
    /\ response.body.id = fake_db[1].key
    /\ uuid_count = Len(fake_db) + Len(fake_blog_db)

\* The keys of a store, in the order of the store.
C17_Order(db) == [i \in DOMAIN db |-> db[i].key]
\* The order without the key at position p.
C17_Without(order, p) ==
    [i \in 1..(Len(order) - 1) |-> IF i < p THEN order[i] ELSE order[i + 1]]
\* The ids a listing of db with the query q is to hold: those of the records at
\* the positions skip+1 .. skip+limit (counted from 1) that the store has.
C17_Page(db, q) ==
    LET skip == IF C9_Has(q, "skip") THEN C9_Last(q, "skip").n ELSE 0
        limit == IF C9_Has(q, "limit") THEN C9_Last(q, "limit").n ELSE 100
        count == IF Len(db) - skip < 0 THEN 0
                 ELSE IF Len(db) - skip < limit THEN Len(db) - skip
                 ELSE limit
    IN  [n \in 1..count |-> db[skip + n].value.id]
\* How one request may change the order of a store.
C17_Positions(db, dbNext, path) ==
    LET order == C17_Order(db)
        orderNext == C17_Order(dbNext)
    IN  /\ request'.method \in {"GET", "PATCH"} => orderNext = order
        /\ request'.method = "POST"
           => SubSeq(orderNext, 1, Len(order)) = order
        /\ request'.method = "DELETE"
           => IF request'.path = path /\ response'.status = HTTP_204_NO_CONTENT
              THEN \E p \in DOMAIN order :
                        /\ order[p] = request'.id
                        /\ orderNext = C17_Without(order, p)
              ELSE orderNext = order

\* C17: a listing answered 200 holds exactly the records at the positions
\* skip+1 .. skip+limit of the store in insertion order, as they are stored
\* (none when skip is at or past the number of records), and changes nothing;
\* an update leaves every record at its position, a create leaves the stored
\* records at theirs, and a delete moves up the records after the deleted one
\* and no other.
C17_ListingIsSlice ==
    [][IsStep =>
        /\ (IsListing(request') /\ response'.status = HTTP_200_OK)
           => LET db == IF request'.path = "/users/" THEN fake_db ELSE fake_blog_db
                  page == C17_Page(db, request'.query)
              IN  /\ Len(response'.body) = Len(page)
                  /\ \A n \in DOMAIN page :
                        /\ response'.body[n].id = page[n]
                        /\ \A f \in DOMAIN response'.body[n] :
                              response'.body[n][f] = RecordOf(db, page[n])[f]
                  /\ UNCHANGED <<fake_db, fake_blog_db, uuid_count, clock, deleted>>
        /\ C17_Positions(fake_db, fake_db', "/users/{user_id}")
        /\ C17_Positions(fake_blog_db, fake_blog_db', "/posts/{post_id}")
    ]_vars

\* C17 witness: GET /users/?skip=1&limit=1 was answered with the second stored
\* user alone, after the first stored user was updated.
C17_Witness ==
    /\ IsListing(request)
    /\ request.path = "/users/"
    /\ request.query = <<Param("skip", Num(1)), Param("limit", Num(1))>>
    /\ response.status = HTTP_200_OK
    /\ Len(fake_db) = 2
    /\ fake_db[1].value.first_name = "Bea"
    /\ Len(response.body) = 1
    /\ response.body[1].id = fake_db[2].key

====
